---- MODULE Spec2Model ----
(***************************************************************************)
(* NJUBSwatcher: two page watchers, njubs.py (nubs.nju.edu.cn, per-module  *)
(* mail subscriptions) and syxg.py (syxg.nju.edu.cn, one recipient list).  *)
(* Each run of main() fetches the page, extracts the records of the       *)
(* configured modules, diffs them against the stored snapshot file, mails  *)
(* a summary and rewrites the snapshot file.                               *)
(*                                                                         *)
(* Two specifications:                                                     *)
(*   Spec      sequences of runs of main() of one variant, with the page   *)
(*             changing between runs;                                      *)
(*   DiffSpec  diff_snapshots of either variant applied to bounded inputs. *)
(***************************************************************************)
EXTENDS Naturals, Sequences, FiniteSets

VARIABLES
    variant,    \* which script runs: "njubs" or "syxg"
    page,       \* the origin page: module -> anchors, a module may be missing
    file,       \* the snapshot file on disk
    subs,       \* the recipient lists the run read: njubs MODULE_SUBSCRIPTIONS of the
                \* changed modules, syxg the EMAIL_TO environment value
    creds,      \* the run read SMTP_USER and SMTP_PASS and both were set
    last,       \* what the latest run of main() did
    stable,     \* the previous run fetched the page as it still is, and ended normally
    dOld,       \* DiffSpec: the old snapshot handed to diff_snapshots
    dNew,       \* DiffSpec: the new snapshot handed to diff_snapshots
    dOut        \* DiffSpec: the values the calls of diff_snapshots returned, in order

vars == <<variant, page, file, subs, creds, last, stable, dOld, dNew, dOut>>

------------------------------------------------------------------------------
(* Bounds and small value sets *)

\* the most anchors on a page / records in a snapshot, all modules together
MaxItems == 2

\* the modules of the model: two of MODULE_IDS (njubs) / MODULE_NAMES (syxg)
Modules == {"notices", "events"}

\* the order in which the code walks the modules (dict / list order)
ModuleOrder == <<"notices", "events">>

Titles == {"A", "B"}
Urls == {"http://x/1", "http://x/2"}
Dates == {"2024-01-01", "2024-01-02"}

------------------------------------------------------------------------------
(* Python helpers *)

\* dict.get(module, []) on a snapshot
SnapGet(snap, module) == IF module \in DOMAIN snap THEN snap[module] ELSE <<>>

\* the keys of {item[f]: item for item in items}, in insertion order: a key keeps
\* the place of its first occurrence
RECURSIVE DictKeysFrom(_, _, _)
DictKeysFrom(items, f, i) ==
    IF i > Len(items) THEN <<>>
    ELSE (IF \E j \in 1..(i - 1) : items[j][f] = items[i][f]
          THEN <<>> ELSE <<items[i][f]>>) \o DictKeysFrom(items, f, i + 1)

DictKeys(items, f) == DictKeysFrom(items, f, 1)

\* the value of {item[f]: item for item in items}[k]: the last item with that key wins
DictGet(items, f, k) ==
    items[CHOOSE i \in 1..Len(items) :
            /\ items[i][f] = k
            /\ \A j \in (i + 1)..Len(items) : items[j][f] # k]

\* k in {item[f]: item for item in items}
DictHas(items, f, k) == \E i \in 1..Len(items) : items[i][f] = k

\* [g(x) for x in s if p(x)] over the elements of a sequence, by index
RECURSIVE SeqRange(_, _)
SeqRange(lo, hi) == IF lo > hi THEN <<>> ELSE <<lo>> \o SeqRange(lo + 1, hi)

\* the set of elements of a sequence
Range(s) == {s[i] : i \in 1..Len(s)}

\* every listing of a finite set as a sequence without repetition (the iteration
\* order of a Python set of str is not fixed: it depends on the hash seed)
Orderings(S) ==
    {s \in [1..Cardinality(S) -> S] : \A i, j \in 1..Cardinality(S) : s[i] = s[j] => i = j}

------------------------------------------------------------------------------
(* njubs.py: diff_snapshots *)

NjubsAdded(old_list, new_list) ==
    LET ks == SelectSeq(DictKeys(new_list, "url"), LAMBDA k : ~DictHas(old_list, "url", k))
    IN [i \in 1..Len(ks) |-> DictGet(new_list, "url", ks[i])]

\* a removed list that keeps every old record
NjubsRemoved_KeepsAll(old_list, new_list) == old_list

NjubsRemoved(old_list, new_list) ==
    LET ks == SelectSeq(DictKeys(old_list, "url"), LAMBDA k : ~DictHas(new_list, "url", k))
    IN [i \in 1..Len(ks) |-> DictGet(old_list, "url", ks[i])]

NjubsChanged(old_list, new_list) ==
    LET ks == SelectSeq(DictKeys(new_list, "url"),
                        LAMBDA k : /\ DictHas(old_list, "url", k)
                                   /\ DictGet(old_list, "url", k).title
                                        # DictGet(new_list, "url", k).title)
    IN [i \in 1..Len(ks) |-> [old |-> DictGet(old_list, "url", ks[i]),
                              new |-> DictGet(new_list, "url", ks[i])]]

njubs_diff_snapshots(old, new) ==
    [module \in Modules |->
        [added   |-> NjubsAdded(SnapGet(old, module), SnapGet(new, module)),
         removed |-> NjubsRemoved(SnapGet(old, module), SnapGet(new, module)),
         changed |-> NjubsChanged(SnapGet(old, module), SnapGet(new, module))]]

------------------------------------------------------------------------------
(* syxg.py: diff_snapshots *)

\* hashlib.sha256(f"{title}||{href}||{date}").hexdigest(): one digest per triple
ItemHash(title, href, date) == <<title, href, date>>

\* set(new_map) - set(old_map), as the records new_map holds for them
SyxgAddedSet(old_list, new_list) ==
    {DictGet(new_list, "hash", h) :
        h \in {k \in Range(DictKeys(new_list, "hash")) : ~DictHas(old_list, "hash", k)}}

SyxgRemovedSet(old_list, new_list) ==
    {DictGet(old_list, "hash", h) :
        h \in {k \in Range(DictKeys(old_list, "hash")) : ~DictHas(new_list, "hash", k)}}

\* for it in new_list: oh = old_by_href.get(it['href']); a pair when title or date differ
SyxgChanged(old_list, new_list) ==
    LET hit(i) == /\ DictHas(old_list, "href", new_list[i].href)
                  /\ LET oh == DictGet(old_list, "href", new_list[i].href)
                     IN oh.title # new_list[i].title \/ oh.date # new_list[i].date
        is == SelectSeq(SeqRange(1, Len(new_list)), hit)
    IN [n \in 1..Len(is) |-> <<DictGet(old_list, "href", new_list[is[n]].href),
                               new_list[is[n]]>>]

\* the values diff_snapshots can give one module: added and removed are listed
\* in the iteration order of a set
syxg_diff_module(old_list, new_list) ==
    [added   : Orderings(SyxgAddedSet(old_list, new_list)),
     removed : Orderings(SyxgRemovedSet(old_list, new_list)),
     changed : {SyxgChanged(old_list, new_list)}]

\* the values diff_snapshots can return
syxg_diff_snapshots(old, new) ==
    {d \in [Modules -> UNION {syxg_diff_module(SnapGet(old, m), SnapGet(new, m)) : m \in Modules}] :
        \A m \in Modules : d[m] \in syxg_diff_module(SnapGet(old, m), SnapGet(new, m))}

------------------------------------------------------------------------------
(* DiffSpec: diff_snapshots applied to bounded snapshots *)

Variants == {"njubs", "syxg"}

\* a record as njubs.py's diff reads it (title, url), with the date the spec's
\* records carry; fetch_module itself stores no date
NjubsItem(t, u, d) == [title |-> t, url |-> u, date |-> d]

\* a record as parse_modules builds it
SyxgItem(t, u, d) == [title |-> t, href |-> u, date |-> d, hash |-> ItemHash(t, u, d)]

SeqsUpTo(S, n) == UNION {[1..k -> S] : k \in 0..n}

RECURSIVE TotalFrom(_, _)
TotalFrom(snap, i) ==
    IF i > Len(ModuleOrder) THEN 0
    ELSE Len(SnapGet(snap, ModuleOrder[i])) + TotalFrom(snap, i + 1)

\* the number of records of a snapshot, all modules together
Total(snap) == TotalFrom(snap, 1)

\* the snapshots whose module m holds records of U[m]: a mapping from some of the
\* modules to lists, of at most MaxItems records in all
SnapshotsFrom(U) ==
    UNION {{snap \in [D -> SeqsUpTo(UNION {U[m] : m \in D}, MaxItems)] :
                /\ Total(snap) <= MaxItems
                /\ \A m \in D : \A i \in 1..Len(snap[m]) : snap[m][i] \in U[m]} :
            D \in SUBSET Modules}

\* the records diff_snapshots is tried on: a base record and the records that
\* differ from it in one field
DiffTriples ==
    {x \in Titles \X Urls \X Dates :
        Cardinality({i \in 1..3 : x[i] # <<"A", "http://x/1", "2024-01-01">>[i]}) <= 1}

\* the first module takes every such record, the other modules the base record
DiffItems(v, m) ==
    LET T == IF m = ModuleOrder[1] THEN DiffTriples
             ELSE {<<"A", "http://x/1", "2024-01-01">>}
    IN IF v = "njubs" THEN {NjubsItem(x[1], x[2], x[3]) : x \in T}
       ELSE {SyxgItem(x[1], x[2], x[3]) : x \in T}

DiffSnapshots(v) == SnapshotsFrom([m \in Modules |-> DiffItems(v, m)])

------------------------------------------------------------------------------
(* The page and its extraction *)

\* the address an anchor's href is normalised to
\* (njubs: "https://nubs.nju.edu.cn/" + href.lstrip("/") unless it starts with http;
\*  syxg: urljoin(URL, href) when it starts with "/")
AbsHref(v, href) ==
    IF href = "/1"
    THEN (IF v = "njubs" THEN "https://nubs.nju.edu.cn/1" ELSE "http://syxg.nju.edu.cn/1")
    ELSE href

\* the anchors a module of the page can show: the first module a relative and an
\* absolute link to the same address under two titles, the other modules the first
PageAnchors(v, m) ==
    {[title |-> "A", href |-> "/1", date |-> "2024-01-01"]}
    \cup (IF m = ModuleOrder[1]
          THEN {[title |-> "B", href |-> AbsHref(v, "/1"), date |-> "2024-01-01"]}
          ELSE {})

\* the pages: each module's container is missing or lists anchors. fetch_module
\* reads a missing container as an empty one, so njubs pages show every container
Pages(v) ==
    {pg \in SnapshotsFrom([m \in Modules |-> PageAnchors(v, m)]) :
        v = "njubs" => DOMAIN pg = Modules}

\* njubs.py fetch_module, given whether its own get_page returned the document
fetch_module(got_html, pg, module_id) ==
    IF ~got_html THEN <<>>
    ELSE IF module_id \notin DOMAIN pg THEN <<>>
    ELSE LET links == SelectSeq(pg[module_id], LAMBDA a : a.title # "")
         IN [i \in 1..Len(links) |->
                [title |-> links[i].title, url |-> AbsHref("njubs", links[i].href)]]

\* njubs.py fetch_all_modules: one get_page per module
fetch_all_modules(got, pg) == [name \in Modules |-> fetch_module(got[name], pg, name)]

\* syxg.py parse_modules: only the boxes found on the page become keys
parse_modules(pg) ==
    [module_name \in DOMAIN pg |->
        [i \in 1..Len(pg[module_name]) |->
            SyxgItem(pg[module_name][i].title,
                     AbsHref("syxg", pg[module_name][i].href),
                     pg[module_name][i].date)]]

------------------------------------------------------------------------------
(* The snapshot file *)

\* the file's content: none, text json.load rejects, JSON that is no mapping of
\* modules to record lists, or the JSON of a snapshot
FileAbsent == [kind |-> "absent", data |-> <<>>]
FileGarbage == [kind |-> "garbage", data |-> <<>>]
FileBadShape == [kind |-> "badshape", data |-> <<>>]

\* save_snapshot: json.dump of the snapshot
save_snapshot(data) == [kind |-> "json", data |-> data]

\* save_snapshot when the process is terminated inside it: open(path, "w") has
\* emptied the file and json.dump has written none or a part of the text, which
\* json.load rejects
save_snapshot_killed(data) == FileGarbage

\* load_snapshot either returns a value or raises
\* njubs.py: any exception while opening or parsing gives {}
njubs_load_snapshot(f) ==
    IF f.kind \in {"absent", "garbage"} THEN [raised |-> FALSE, mapping |-> TRUE, value |-> <<>>]
    ELSE [raised |-> FALSE, mapping |-> f.kind = "json", value |-> f.data]

\* syxg.py: {} only when the file does not exist; json.load may raise
syxg_load_snapshot(f) ==
    IF f.kind = "absent" THEN [raised |-> FALSE, mapping |-> TRUE, value |-> <<>>]
    ELSE IF f.kind = "garbage" THEN [raised |-> TRUE, mapping |-> FALSE, value |-> <<>>]
    ELSE [raised |-> FALSE, mapping |-> f.kind = "json", value |-> f.data]

\* a first-run test that takes every stored snapshot for none
IsEmptyDict_Always(snap) == TRUE

\* Python's "not old_snapshot" on a dict
IsEmptyDict(snap) == DOMAIN snap = {}

------------------------------------------------------------------------------
(* Whether a module's diff is empty *)

NjubsModuleChanged(old, new, m) ==
    LET info == njubs_diff_snapshots(old, new)[m]
    IN info.added # <<>> \/ info.removed # <<>> \/ info.changed # <<>>

SyxgModuleChanged(old, new, m) ==
    \/ SyxgAddedSet(SnapGet(old, m), SnapGet(new, m)) # {}
    \/ SyxgRemovedSet(SnapGet(old, m), SnapGet(new, m)) # {}
    \/ SyxgChanged(SnapGet(old, m), SnapGet(new, m)) # <<>>

\* the modules with a non-empty diff, in the order the code walks them
ChangedModules(v, old, new) ==
    SelectSeq(ModuleOrder,
              LAMBDA m : IF v = "njubs" THEN NjubsModuleChanged(old, new, m)
                         ELSE SyxgModuleChanged(old, new, m))

------------------------------------------------------------------------------
(* Notification *)

Recipients == {"r1@x", "r2@x"}

\* the recipient lists a subscription variable can hold
SubLists == {<<>>, <<"r1@x">>, <<"r2@x">>, <<"r1@x", "r2@x">>}

\* a routing that starts a new message for every fragment
AddPart_NoMerge(ur, recipient, body) == Append(ur, [to |-> recipient, parts |-> <<body>>])

\* user_recipients.setdefault(recipient, []).append(body)
AddPart(ur, recipient, body) ==
    IF \E i \in 1..Len(ur) : ur[i].to = recipient
    THEN [i \in 1..Len(ur) |->
            IF ur[i].to = recipient
            THEN [to |-> recipient, parts |-> Append(ur[i].parts, body)]
            ELSE ur[i]]
    ELSE Append(ur, [to |-> recipient, parts |-> <<body>>])

\* for recipient in MODULE_SUBSCRIPTIONS.get(mod, []), from the i-th on
RECURSIVE RouteModule(_, _, _, _)
RouteModule(ur, mod, recips, i) ==
    IF i > Len(recips) THEN ur
    ELSE RouteModule(AddPart(ur, recips[i], mod), mod, recips, i + 1)

\* njubs.py main, lines 216-229: the dict recipient -> fragments, in insertion
\* order; a fragment is named by its module
RECURSIVE RouteFrom(_, _, _, _)
RouteFrom(ur, changed, module_subscriptions, k) ==
    IF k > Len(changed) THEN ur
    ELSE RouteFrom(RouteModule(ur, changed[k], module_subscriptions[changed[k]], 1),
                   changed, module_subscriptions, k + 1)

user_recipients(changed, module_subscriptions) ==
    RouteFrom(<<>>, changed, module_subscriptions, 1)

\* how many sends of the loop complete: all before the first sendmail that raises
RECURSIVE SendsDone(_, _, _)
SendsDone(ur, fails, i) ==
    IF i > Len(ur) \/ ur[i].to \in fails THEN i - 1 ELSE SendsDone(ur, fails, i + 1)

\* njubs.py send_email_combined: what it does on the wire. One try block holds the
\* connection, the login, the loop of sends and quit
send_email_combined(ur, smtp_up, fails) ==
    IF ur = <<>> THEN [sent |-> <<>>, refused |-> {}, events |-> <<>>]
    ELSE IF ~smtp_up THEN [sent |-> <<>>, refused |-> {}, events |-> <<"connect">>]
    ELSE LET n == SendsDone(ur, fails, 1)
         IN [sent   |-> SubSeq(ur, 1, n),
             refused |-> {ur[i].to : i \in 1..Len(ur)} \cap fails,
             events |-> <<"connect", "login">>
                        \o [i \in 1..(IF n < Len(ur) THEN n + 1 ELSE n) |-> "sendmail"]
                        \o (IF n = Len(ur) THEN <<"quit">> ELSE <<>>)]

\* syxg.py: EMAIL_TO = os.environ.get("EMAIL_TO", "").split(",")
SplitComma(env) == IF env = <<>> THEN <<"">> ELSE env

\* syxg.py send_email: one message to the whole list; sendmail raises only when
\* every recipient is refused, and the empty address always is
send_email(have_creds, email_to, body, smtp_up, fails) ==
    IF ~have_creds \/ email_to = <<>> THEN [sent |-> <<>>, refused |-> {}, events |-> <<>>]
    ELSE IF ~smtp_up THEN [sent |-> <<>>, refused |-> {}, events |-> <<"connect">>]
    ELSE LET ok == SelectSeq(email_to, LAMBDA r : r # "" /\ r \notin fails)
         IN [sent   |-> [i \in 1..Len(ok) |-> [to |-> ok[i], parts |-> body]],
             refused |-> Range(email_to) \ Range(ok),
             events |-> <<"connect", "login", "sendmail">>
                        \o (IF ok # <<>> THEN <<"quit">> ELSE <<>>)]

------------------------------------------------------------------------------
(* main() *)

NoRun ==
    [ran |-> FALSE, fileBefore |-> FileAbsent, samePage |-> FALSE, got |-> <<>>,
     new_snapshot |-> <<>>, outcome |-> "none", changed |-> <<>>, attempt |-> <<>>,
     sent |-> <<>>, refused |-> {}, saved |-> FALSE, events |-> <<>>]

\* njubs.py main, after the fetch. outcome: "crash" an uncaught exception ended
\* the run, "changed" the branch that mails and saves, "first" the first-run save,
\* "nochange" the branch that only prints
NjubsAfterFetch(f, new, module_subscriptions, smtp_up, fails) ==
    LET ld == njubs_load_snapshot(f)
        old == ld.value
        ch == ChangedModules("njubs", old, new)
        ur == user_recipients(ch, module_subscriptions)
        mail == send_email_combined(ur, smtp_up, fails)
    IN IF ~ld.mapping
       THEN [outcome |-> "crash", changed |-> <<>>, attempt |-> <<>>,
             sent |-> <<>>, refused |-> {},
             saved |-> FALSE, events |-> <<"load">>, file |-> f]
       ELSE IF ur # <<>>
       THEN [outcome |-> "changed", changed |-> ch, attempt |-> ur,
             sent |-> mail.sent, refused |-> mail.refused,
             saved |-> TRUE, events |-> <<"load">> \o mail.events \o <<"save", "push">>,
             file |-> save_snapshot(new)]
       ELSE IF IsEmptyDict(old)
       THEN [outcome |-> "first", changed |-> ch, attempt |-> <<>>,
             sent |-> <<>>, refused |-> {},
             saved |-> TRUE, events |-> <<"load", "save", "push">>,
             file |-> save_snapshot(new)]
       ELSE [outcome |-> "nochange", changed |-> ch, attempt |-> <<>>,
             sent |-> <<>>, refused |-> {},
             saved |-> FALSE, events |-> <<"load">>, file |-> f]

\* syxg.py main, after the page was fetched and parsed
SyxgAfterFetch(f, new, have_creds, email_env, smtp_up, fails) ==
    LET ld == syxg_load_snapshot(f)
        old == ld.value
        ch == ChangedModules("syxg", old, new)
        email_to == SplitComma(email_env)
        mail == send_email(have_creds, email_to, ch, smtp_up, fails)
    IN IF ld.raised \/ ~ld.mapping
       THEN [outcome |-> "crash", changed |-> <<>>, attempt |-> <<>>,
             sent |-> <<>>, refused |-> {},
             saved |-> FALSE, events |-> <<"load">>, file |-> f]
       ELSE IF ch # <<>>
       THEN [outcome |-> "changed", changed |-> ch,
             attempt |-> IF have_creds
                         THEN [i \in 1..Len(email_to) |-> [to |-> email_to[i], parts |-> ch]]
                         ELSE <<>>,
             sent |-> mail.sent, refused |-> mail.refused, saved |-> TRUE,
             events |-> <<"load", "save">> \o mail.events,
             file |-> save_snapshot(new)]
       ELSE IF IsEmptyDict(old)
       THEN [outcome |-> "first", changed |-> ch, attempt |-> <<>>,
             sent |-> <<>>, refused |-> {},
             saved |-> TRUE, events |-> <<"load", "save">>, file |-> save_snapshot(new)]
       ELSE [outcome |-> "nochange", changed |-> ch, attempt |-> <<>>,
             sent |-> <<>>, refused |-> {},
             saved |-> FALSE, events |-> <<"load">>, file |-> f]

\* the run r cut short by the termination of the process inside save_snapshot.
\* njubs.py has mailed by then, syxg.py has not yet called send_email
KilledInSave(v, r, new) ==
    LET i == CHOOSE k \in 1..Len(r.events) :
                r.events[k] = "save" /\ \A j \in 1..(k - 1) : r.events[j] # "save"
    IN [r EXCEPT !.outcome = "killed",
                 !.events = SubSeq(r.events, 1, i),
                 !.attempt = IF v = "njubs" THEN r.attempt ELSE <<>>,
                 !.sent = IF v = "njubs" THEN r.sent ELSE <<>>,
                 !.refused = IF v = "njubs" THEN r.refused ELSE {},
                 !.file = save_snapshot_killed(new)]

\* the record of a run, from what the code after the fetch did
RunRecord(f, same, got, new, gets, r) ==
    [ran |-> TRUE, fileBefore |-> f, samePage |-> same, got |-> got,
     new_snapshot |-> new, outcome |-> r.outcome, changed |-> r.changed,
     attempt |-> r.attempt, sent |-> r.sent, refused |-> r.refused, saved |-> r.saved,
     events |-> gets \o r.events]

\* the files a run can find: none, a damaged one, an empty mapping, or the
\* snapshot an earlier run saved
Files(v) ==
    {FileAbsent, FileGarbage, FileBadShape, save_snapshot(<<>>)}
    \cup {save_snapshot(IF v = "njubs"
                        THEN fetch_all_modules([m \in Modules |-> TRUE], pg)
                        ELSE parse_modules(pg)) : pg \in Pages(v)}

\* DiffSpec's variables, unused by Spec
DiffIdle == dOld = <<>> /\ dNew = <<>> /\ dOut = <<>>

Init ==
    /\ variant \in Variants
    /\ page \in Pages(variant)
    /\ file \in Files(variant)
    /\ subs = <<>>
    /\ creds = FALSE
    /\ last = NoRun
    /\ stable = FALSE
    /\ DiffIdle

\* one run of njubs.py, to its end or to the termination of the process inside
\* save_snapshot. Each module's get_page succeeds or not on its own. The
\* environment's subscription lists are read for the changed modules only, the
\* credentials only by the login; the mail server answers or not and refuses
\* some recipients. A login without credentials is refused.
NjubsMain ==
    /\ variant = "njubs"
    /\ ~last.ran
    /\ \E got \in [Modules -> BOOLEAN] :
        LET new == fetch_all_modules(got, page)
            ch == ChangedModules("njubs", njubs_load_snapshot(file).value, new)
        IN \E ms \in [Range(ch) -> SubLists] :
            LET dry == NjubsAfterFetch(file, new, ms, FALSE, {})
            IN \E cr \in (IF dry.attempt # <<>> THEN BOOLEAN ELSE {FALSE}) :
               \E smtp_up \in (IF cr THEN BOOLEAN ELSE {FALSE}) :
               \E fails \in (IF smtp_up THEN SUBSET Recipients ELSE {{}}) :
                LET run == NjubsAfterFetch(file, new, ms, smtp_up, fails)
                IN \E killed \in (IF run.saved THEN BOOLEAN ELSE {FALSE}) :
                    LET r == IF killed THEN KilledInSave("njubs", run, new) ELSE run
                    IN /\ file' = r.file
                       /\ subs' = ms
                       /\ creds' = cr
                       /\ last' = RunRecord(file, stable, got, new,
                                            [i \in 1..Len(ModuleOrder) |-> "get"], r)
                       /\ stable' = (~killed /\ \A m \in Modules : got[m])
    /\ UNCHANGED <<variant, page, dOld, dNew, dOut>>

\* one run of syxg.py, to its end or to the termination of the process inside
\* save_snapshot. get_page raises when the fetch fails and main returns.
\* EMAIL_TO and the credentials are read by send_email only
SyxgMain ==
    /\ variant = "syxg"
    /\ ~last.ran
    /\ \E got \in BOOLEAN :
        IF ~got
        THEN /\ file' = file
             /\ subs' = <<>>
             /\ creds' = FALSE
             /\ last' = [NoRun EXCEPT !.ran = TRUE, !.fileBefore = file,
                                      !.samePage = stable, !.outcome = "fetch_failed",
                                      !.got = [m \in Modules |-> FALSE],
                                      !.events = <<"get">>]
             /\ stable' = FALSE
        ELSE LET new == parse_modules(page)
                 called == SyxgAfterFetch(file, new, FALSE, <<>>, FALSE, {}).outcome = "changed"
             IN \E env \in (IF called THEN SubLists ELSE {<<>>}) :
                \E cr \in (IF called THEN BOOLEAN ELSE {FALSE}) :
                \E smtp_up \in (IF cr THEN BOOLEAN ELSE {FALSE}) :
                \E fails \in (IF smtp_up THEN SUBSET Recipients ELSE {{}}) :
                 LET run == SyxgAfterFetch(file, new, cr, env, smtp_up, fails)
                 IN \E killed \in (IF run.saved THEN BOOLEAN ELSE {FALSE}) :
                     LET r == IF killed THEN KilledInSave("syxg", run, new) ELSE run
                     IN /\ file' = r.file
                        /\ subs' = env
                        /\ creds' = IF killed THEN FALSE ELSE cr
                        /\ last' = RunRecord(file, stable, [m \in Modules |-> TRUE], new,
                                             <<"get">>, r)
                        /\ stable' = ~killed
    /\ UNCHANGED <<variant, page, dOld, dNew, dOut>>

\* the process ends: nothing of the run stays but the file
Exit ==
    /\ last.ran
    /\ last' = NoRun
    /\ subs' = <<>>
    /\ creds' = FALSE
    /\ UNCHANGED <<variant, page, file, stable, dOld, dNew, dOut>>

\* the site's editors change the page between two runs
SiteUpdate ==
    /\ ~last.ran
    /\ \E pg \in Pages(variant) \ {page} : page' = pg
    /\ stable' = FALSE
    /\ UNCHANGED <<variant, file, subs, creds, last, dOld, dNew, dOut>>

Next == NjubsMain \/ SyxgMain \/ Exit \/ SiteUpdate

Spec == Init /\ [][Next]_vars

\* the pipeline's variables, unused by DiffSpec
Idle ==
    /\ page = <<>>
    /\ file = FileAbsent
    /\ subs = <<>>
    /\ creds = FALSE
    /\ last = NoRun
    /\ stable = FALSE

\* the scenario of the specification's section 8, as records of each variant
ScenarioOld(v) ==
    IF v = "njubs"
    THEN [notices |-> <<NjubsItem("A", "http://x/1", "2024-01-01")>>]
    ELSE [notices |-> <<SyxgItem("A", "http://x/1", "2024-01-01")>>]

ScenarioNew(v) ==
    IF v = "njubs"
    THEN [notices |-> <<NjubsItem("A", "http://x/1", "2024-01-02"),
                        NjubsItem("B", "http://x/2", "2024-01-03")>>]
    ELSE [notices |-> <<SyxgItem("A", "http://x/1", "2024-01-02"),
                        SyxgItem("B", "http://x/2", "2024-01-03")>>]

DiffInit ==
    /\ variant \in Variants
    /\ \/ dOld \in DiffSnapshots(variant) /\ dNew \in DiffSnapshots(variant)
       \/ dOld = ScenarioOld(variant) /\ dNew = ScenarioNew(variant)
    /\ dOut = <<>>
    /\ Idle

DiffNjubs ==
    /\ variant = "njubs"
    /\ dOut = <<>>
    /\ dOut' = <<njubs_diff_snapshots(dOld, dNew)>>
    /\ UNCHANGED <<variant, page, file, subs, creds, last, stable, dOld, dNew>>

DiffSyxg ==
    /\ variant = "syxg"
    /\ dOut = <<>>
    /\ \E d \in syxg_diff_snapshots(dOld, dNew) : dOut' = <<d>>
    /\ UNCHANGED <<variant, page, file, subs, creds, last, stable, dOld, dNew>>

\* one interpreter lists a set the same way every time it builds it the same
\* way: two listings of one set, made by one process, are equal
SameListing(s1, s2) == Range(s1) = Range(s2) => s1 = s2

\* the values diff_snapshots(new, old) can return in the process whose call
\* diff_snapshots(old, new) returned d: the added of one call and the removed of
\* the other are both listings of set(B_map) - set(A_map) for the same lists
swapped_diff_snapshots(v, old, new, d) ==
    IF v = "njubs" THEN {njubs_diff_snapshots(new, old)}
    ELSE {d2 \in syxg_diff_snapshots(new, old) :
            \A m \in Modules : /\ SameListing(d2[m].added, d[m].removed)
                               /\ SameListing(d2[m].removed, d[m].added)}

\* the values diff_snapshots(old, new) can return in another run of the script,
\* which has a hash seed of its own (PYTHONHASHSEED is random by default)
again_diff_snapshots(v, old, new) ==
    IF v = "njubs" THEN {njubs_diff_snapshots(old, new)}
    ELSE syxg_diff_snapshots(old, new)

\* the same process calls diff_snapshots with the arguments swapped
DiffSwapped ==
    /\ Len(dOut) = 1
    /\ \E d \in swapped_diff_snapshots(variant, dOld, dNew, dOut[1]) :
        dOut' = Append(dOut, [call |-> "swapped", diff |-> d])
    /\ UNCHANGED <<variant, page, file, subs, creds, last, stable, dOld, dNew>>

\* another run of the script calls diff_snapshots on the same arguments
DiffAgain ==
    /\ Len(dOut) = 1
    /\ \E d \in again_diff_snapshots(variant, dOld, dNew) :
        dOut' = Append(dOut, [call |-> "again", diff |-> d])
    /\ UNCHANGED <<variant, page, file, subs, creds, last, stable, dOld, dNew>>

DiffNext == DiffNjubs \/ DiffSyxg \/ DiffSwapped \/ DiffAgain

DiffSpec == DiffInit /\ [][DiffNext]_vars

------------------------------------------------------------------------------
(* Claims about main(), checked under Spec *)

\* every get_page of the run returned the document
FetchOK == last.ran /\ \A m \in Modules : last.got[m]

\* some get_page of the run failed
FetchFailed == last.ran /\ \E m \in Modules : ~last.got[m]

\* the snapshot load_snapshot gave the run
OldSnapshot ==
    IF variant = "njubs" THEN njubs_load_snapshot(last.fileBefore).value
    ELSE syxg_load_snapshot(last.fileBefore).value

\* the modules whose diff between the stored and the fetched snapshot is not empty
ChangedSet == Range(ChangedModules(variant, OldSnapshot, last.new_snapshot))

\* C1: a run whose page fetch fails aborts before diffing: it sends no
\* notification and leaves the snapshot file as it was
C1_FetchFailureAborts ==
    FetchFailed =>
        /\ last.outcome = "fetch_failed"
        /\ last.sent = <<>>
        /\ file = last.fileBefore

\* C2: a run that finds no snapshot file and fetches the page stores the fetched
\* snapshot and sends no notification
C2_FirstRunNeverNotifies ==
    (FetchOK /\ last.fileBefore = FileAbsent) =>
        /\ file = save_snapshot(last.new_snapshot)
        /\ last.sent = <<>>

\* C3: a run that finds a snapshot and a module with a non-empty diff leaves the
\* fetched snapshot in the file, whoever subscribes and however delivery goes
C3_ChangePersisted ==
    (FetchOK /\ last.fileBefore.kind = "json" /\ ChangedSet # {}) =>
        file = save_snapshot(last.new_snapshot)

\* C4, as claimed: a run that finds a snapshot file holding any mapping, the empty
\* one too, and no module with a non-empty diff sends nothing and does not save
C4_NoChangeNoSave_Original ==
    (FetchOK /\ last.fileBefore.kind = "json" /\ ChangedSet = {}) =>
        /\ last.sent = <<>>
        /\ ~last.saved
        /\ file = last.fileBefore

\* C4, amended: a run that finds a snapshot file holding a mapping with at least
\* one module and no module with a non-empty diff sends nothing, does not call
\* save_snapshot and leaves the file as it was
C4_NoChangeNoSave ==
    (last.ran /\ last.fileBefore.kind = "json" /\ DOMAIN last.fileBefore.data # {}
        /\ last.outcome # "fetch_failed" /\ ChangedSet = {}) =>
        /\ last.sent = <<>>
        /\ last.attempt = <<>>
        /\ ~last.saved
        /\ "save" \notin Range(last.events)
        /\ file = last.fileBefore

C4_Witness ==
    /\ FetchOK /\ last.fileBefore.kind = "json" /\ DOMAIN last.fileBefore.data # {}
    /\ last.outcome = "nochange" /\ ChangedSet = {}
    /\ Total(last.new_snapshot) = MaxItems

\* C5: a run over the content the previous run fetched and stored sends no
\* notification and leaves the snapshot file as the previous run left it
C5_SecondRunIdle ==
    (FetchOK /\ last.samePage /\ last.fileBefore = save_snapshot(last.new_snapshot)) =>
        /\ last.sent = <<>>
        /\ file = last.fileBefore

\* C6: a run that finds an unreadable or malformed snapshot file does not end with
\* an uncaught error; it goes on as a first observation and stores what it fetched
C6_CorruptSnapshotTolerated ==
    (FetchOK /\ last.fileBefore.kind \in {"garbage", "badshape"}) =>
        /\ last.outcome # "crash"
        /\ file = save_snapshot(last.new_snapshot)

\* C7: in a run that reaches the mail server, every recipient the run has a message
\* for and the server does not refuse is sent that message, wherever the refused
\* recipients stand in the send order
C7_FailureDoesNotStopOthers ==
    (FetchOK /\ "login" \in Range(last.events)) =>
        \A i \in 1..Len(last.attempt) :
            last.attempt[i].to \notin last.refused =>
                \E j \in 1..Len(last.sent) : last.sent[j] = last.attempt[i]

\* the changed modules recipient r subscribes to
SubscribedChanged(r) == {m \in ChangedSet : r \in Range(subs[m])}

------------------------------------------------------------------------------
(* Claims about diff_snapshots, checked under DiffSpec *)

\* the address of a record: "url" in njubs.py, "href" in syxg.py
Url(r) == IF variant = "njubs" THEN r.url ELSE r.href

\* no two records of the list share an address
DistinctUrls(list) ==
    \A i, j \in 1..Len(list) : Url(list[i]) = Url(list[j]) => i = j

\* the changed pairs of a module's diff as <<old, new>>: njubs.py returns dicts
\* {"old", "new"}, syxg.py tuples
ChangedPairs(info) ==
    IF variant = "njubs"
    THEN [k \in 1..Len(info.changed) |-> <<info.changed[k].old, info.changed[k].new>>]
    ELSE info.changed

\* C9: over lists of distinct addresses, a record whose address is on both sides
\* with the same title and another date is reported once, as a pair of changed, and
\* is in neither added nor removed; a record whose address is only in new is in
\* added. The spec's scenario gives added = [B], removed = [], changed = [(A, A')]
C9_DateChangeIsChanged ==
    dOut # <<>> =>
        /\ \A m \in Modules :
            LET o == SnapGet(dOld, m)
                n == SnapGet(dNew, m)
                info == dOut[1][m]
                pairs == ChangedPairs(info)
            IN (DistinctUrls(o) /\ DistinctUrls(n)) =>
                /\ \A i \in 1..Len(o), j \in 1..Len(n) :
                    (Url(o[i]) = Url(n[j]) /\ o[i].title = n[j].title
                        /\ o[i].date # n[j].date) =>
                        /\ Cardinality({k \in 1..Len(pairs) : pairs[k] = <<o[i], n[j]>>}) = 1
                        /\ n[j] \notin Range(info.added)
                        /\ o[i] \notin Range(info.removed)
                /\ \A j \in 1..Len(n) :
                    (\A i \in 1..Len(o) : Url(o[i]) # Url(n[j])) => n[j] \in Range(info.added)
        /\ (dOld = ScenarioOld(variant) /\ dNew = ScenarioNew(variant)) =>
            LET info == dOut[1]["notices"]
            IN /\ info.added = <<dNew["notices"][2]>>
               /\ info.removed = <<>>
               /\ ChangedPairs(info) = <<<<dOld["notices"][1], dNew["notices"][1]>>>>

\* C10: diff_snapshots of a snapshot with itself gives every module empty added,
\* removed and changed, also when two records of a list share an address
C10_DiffSelfEmpty ==
    (dOut # <<>> /\ dOld = dNew) =>
        \A m \in Modules :
            /\ dOut[1][m].added = <<>>
            /\ dOut[1][m].removed = <<>>
            /\ dOut[1][m].changed = <<>>

\* C11: for two record lists of one module, each with distinct addresses, the
\* added of diff_snapshots(A, B) is the removed of diff_snapshots(B, A), and the
\* removed of diff_snapshots(A, B) is the added of diff_snapshots(B, A)
C11_DiffSymmetry ==
    (Len(dOut) = 2 /\ dOut[2].call = "swapped") =>
        \A m \in Modules :
            (DistinctUrls(SnapGet(dOld, m)) /\ DistinctUrls(SnapGet(dNew, m))) =>
                /\ dOut[1][m].added = dOut[2].diff[m].removed
                /\ dOut[1][m].removed = dOut[2].diff[m].added

C11_Witness ==
    /\ Len(dOut) = 2 /\ dOut[2].call = "swapped"
    /\ \E m \in Modules :
        /\ DistinctUrls(SnapGet(dOld, m)) /\ DistinctUrls(SnapGet(dNew, m))
        /\ Len(dOut[1][m].added) = 2
        /\ dOut[2].diff[m].removed = dOut[1][m].added

\* a module's diff reports nothing
EmptyInfo(info) == info.added = <<>> /\ info.removed = <<>> /\ info.changed = <<>>

\* C13: when old and new differ in one module only, the diff of every other module
\* is empty; a module missing from old is diffed as an empty list, every record of
\* new being reported in added and nothing elsewhere, and a module missing from new
\* likewise with removed
C13_ModuleIsolation ==
    dOut # <<>> =>
        /\ \A x \in Modules :
            (/\ SnapGet(dOld, x) # SnapGet(dNew, x)
             /\ \A y \in Modules \ {x} : SnapGet(dOld, y) = SnapGet(dNew, y)) =>
                \A y \in Modules \ {x} : EmptyInfo(dOut[1][y])
        /\ \A m \in Modules :
            /\ m \notin DOMAIN dOld =>
                /\ Range(dOut[1][m].added) = Range(SnapGet(dNew, m))
                /\ dOut[1][m].removed = <<>> /\ dOut[1][m].changed = <<>>
            /\ m \notin DOMAIN dNew =>
                /\ Range(dOut[1][m].removed) = Range(SnapGet(dOld, m))
                /\ dOut[1][m].added = <<>> /\ dOut[1][m].changed = <<>>

\* the place of the first record of the list that has the address of record r
FirstAt(list, r) == CHOOSE i \in 1..Len(list) :
    Url(list[i]) = Url(r) /\ \A j \in 1..(i - 1) : Url(list[j]) # Url(r)

\* C17: two executions of diff_snapshots on the same old and new return the same
\* added and the same removed, records in the same order, and the changed pairs of
\* an execution follow the order of the records of new
C17_DeterministicOrder ==
    /\ (Len(dOut) = 2 /\ dOut[2].call = "again") =>
        \A m \in Modules :
            /\ dOut[2].diff[m].added = dOut[1][m].added
            /\ dOut[2].diff[m].removed = dOut[1][m].removed
    /\ dOut # <<>> =>
        \A m \in Modules :
            LET pairs == ChangedPairs(dOut[1][m])
            IN \A k, l \in 1..Len(pairs) :
                k < l => FirstAt(SnapGet(dNew, m), pairs[k][2])
                            <= FirstAt(SnapGet(dNew, m), pairs[l][2])

------------------------------------------------------------------------------
(* Claims about the snapshot file and the order of a run's steps, under Spec *)

\* C12: whenever the process stops, at the end of main or by termination inside
\* save_snapshot, the snapshot file holds the complete snapshot the run found or
\* the complete snapshot the run fetched, never an empty or cut one
C12_AtomicSave ==
    (last.ran /\ last.fileBefore.kind \in {"absent", "json"}) =>
        \/ file = last.fileBefore
        \/ file = save_snapshot(last.new_snapshot)

\* the places of an event in the run's sequence of events
At(e) == {i \in 1..Len(last.events) : last.events[i] = e}

\* C14: a run fetches the page exactly once, and the lists of all modules of the
\* new snapshot come from that one document: no run holds some modules from a
\* fetch that succeeded and others from a fetch that failed
C14_SingleFetch ==
    last.ran =>
        /\ Cardinality(At("get")) = 1
        /\ \A m1, m2 \in Modules : last.got[m1] = last.got[m2]

\* C15: in a run that takes the changed branch, opens a mail session and saves the
\* snapshot, the mail session is opened before save_snapshot is called
C15_NotifyThenPersist ==
    (FetchOK /\ last.outcome = "changed" /\ At("connect") # {} /\ At("save") # {}) =>
        \A i \in At("connect"), j \in At("save") : i < j

\* the addresses configured for module m: its subscription list in njubs.py, the
\* one list EMAIL_TO in syxg.py
Subscribers(m) ==
    IF variant = "njubs" THEN (IF m \in DOMAIN subs THEN Range(subs[m]) ELSE {})
    ELSE Range(subs)

\* C16: a run connects to the mail server at most once; when the session is open
\* every send of the run goes through it and it is closed by quit before the run
\* ends; a run that has no recipient to notify opens no session
C16_OneSession ==
    (FetchOK /\ last.outcome \in {"changed", "first", "nochange"}) =>
        /\ Cardinality(At("connect")) <= 1
        /\ At("login") # {} =>
            /\ Cardinality(At("quit")) = 1
            /\ \A i \in At("sendmail"), c \in At("connect"), q \in At("quit") :
                c < i /\ i < q
        /\ (\A m \in Range(last.changed) : Subscribers(m) = {}) => At("connect") = {}

\* C18: a run that finds a snapshot and overwrites the snapshot file has put every
\* subscriber of every module with a non-empty diff into its notification attempt,
\* with that module's fragment
C18_NoAdvanceWithoutAttempt ==
    (FetchOK /\ last.fileBefore.kind = "json" /\ file # last.fileBefore) =>
        \A m \in Range(last.changed) : \A r \in Subscribers(m) :
            \E i \in 1..Len(last.attempt) :
                last.attempt[i].to = r /\ m \in Range(last.attempt[i].parts)

====
